---- MODULE Spec2Model ----
(***************************************************************************)
(* Model of pinterest-board-downloader: the scroll-and-collect loop, the   *)
(* srcset classification, the file naming and the downloader of            *)
(* src/download_images.py.                                                 *)
(***************************************************************************)
EXTENDS Integers, Sequences, FiniteSets, TLC

VARIABLES
  \* ---- scroll_and_collect(driver, pause_time)
  pc,              \* position in scroll_and_collect
  last_height,     \* local last_height
  page_height,     \* new_height read in this iteration (0: not read)
  marker_res,      \* outcome of the page-level marker query in this iteration
  collected,       \* collected_images: identifier -> [high, low]
  result,          \* the returned mapping (None before the return)
  scrolls,         \* number of window.scrollTo commands issued
  scanned,         \* number of img elements scanned in this iteration
  scanned_src,     \* history: src URLs of the elements read in this iteration
  excl_scanned,    \* history: an excluded element carrying http URLs was scanned
  excl_changed,    \* history: scanning an excluded element changed the mapping
  \* ---- pure functions applied to one input
  fn_in,           \* the input (a srcset, a URL)
  fn_out,          \* the value computed from it
  fn_pc,           \* "idle" | "srcset" | "srcset_done" | "name" | "name_done"
  \* ---- download_images(image_dict, output_dir, quality_pref)
  image_dict,      \* the mapping, in dict order: sequence of [high, low]
  quality_pref,    \* the policy
  dpc,             \* position in download_images
  idx,             \* index of the identifier the for loop is at
  urls_to_download,\* local urls_to_download: sequence of <<url, quality>>
  download_count,
  skipped_count,
  files,           \* names of the files present in output_dir
  cur_log,         \* history: the requests issued for the current identifier
  attempted,       \* history: number of requests issued in this run
  failed,          \* history: number of downloads that raised
  run,             \* which run over the same output_dir this is
  files_run1,      \* history: files as the first run left them
  \* ---- one run: main() of the CLI, DownloadThread.run of the GUI
  mode,            \* "cli" | "gui" | "none" (src/main.py)
  run_pc,          \* position in main() or in DownloadThread.run
  session,         \* the browser session of the run: "none" | "open" | "closed"
  total,           \* local total of DownloadThread.run
  count,           \* local count of DownloadThread.run
  percent,         \* the value of the last progress.emit (NoPercent: none yet)
  prev_percent,    \* history: the value of the progress.emit before it
  \* ---- PinterestDownloaderWindow
  go_enabled,      \* go_button.isEnabled()
  bar_format,      \* progress_bar.format()
  sigq,            \* finished / error signals queued for the interaction thread
  active,          \* history: DownloadThread runs started and not yet over
  runs,            \* history: DownloadThread runs started
  handled,         \* history: finished / error notifications handled
  current_folder,  \* self.current_folder (NoFolder: None)
  image_files,     \* number of entries of self.image_files
  thumbnail_loader,\* the ThumbnailLoader the window holds (NoLoader: none)
  loaders,         \* history: number of ThumbnailLoader threads started
  minimap,         \* items of the minimap: the loader each one came from
  thumbq,          \* thumbnail_ready signals queued for the interaction thread
  cleared_running, \* history: minimap.clear() ran while a loader was running
  closed           \* the window has handled closeEvent

cvars == <<pc, last_height, page_height, marker_res, collected, result, scrolls,
           scanned, scanned_src, excl_scanned, excl_changed>>
fvars == <<fn_in, fn_out, fn_pc>>
dvars == <<image_dict, quality_pref, dpc, idx, urls_to_download, download_count,
           skipped_count, files, cur_log, attempted, failed, run, files_run1>>
avars == <<mode, run_pc, session, total, count, percent, prev_percent,
           go_enabled, bar_format, sigq, active, runs, handled>>
tvars == <<current_folder, image_files, thumbnail_loader, loaders, minimap,
           thumbq, cleared_running, closed>>
gvars == <<avars, tvars>>
vars == <<cvars, fvars, dvars, gvars>>

None == "None"

\* an absent attribute (None or the empty string): falsy in the code
NoUrl == [scheme |-> "", path |-> <<>>, query |-> ""]

(***************************************************************************)
(* Bounds of the model.                                                    *)
(***************************************************************************)
MaxIter == 2        \* scroll iterations explored
MaxImgs == 2        \* img elements found per iteration
MaxHeight == 2      \* page heights 1..MaxHeight
MaxEntries == 3     \* entries of a srcset given to the classifier alone
MaxDensity == 2     \* numeric densities 1..MaxDensity
MaxPathLen == 7     \* characters of a URL path given to sanitize_filename
MaxIds == 2         \* identifiers of a mapping given to download_images

(***************************************************************************)
(* URLs.  A URL is [scheme, path, query]; the path is a sequence of        *)
(* characters.                                                             *)
(***************************************************************************)
PathA == <<"/", "a", ".", "j", "p", "g">>
PathB == <<"/", "b", ".", "j", "p", "e", "g">>

UrlA == [scheme |-> "https", path |-> PathA, query |-> ""]
UrlAq == [scheme |-> "https", path |-> PathA, query |-> "w=236"]
UrlB == [scheme |-> "https", path |-> PathB, query |-> ""]
UrlData == [scheme |-> "data", path |-> <<"x">>, query |-> ""]

HttpUrls == {UrlA, UrlAq, UrlB}
AllUrls == HttpUrls \cup {UrlData}

\* str.startswith("http")
StartsWithHttp(u) == u.scheme \in {"http", "https"}

\* urlparse(url).path
UrlPath(u) == u.path

\* hashlib.md5(x).hexdigest(): a fixed-length digest, distinct for distinct inputs
Md5(x) == <<"md5", x>>

\* hashlib.md5(urlparse(url).path.encode('utf-8')).hexdigest()
Identifier(u) == Md5(UrlPath(u))

(***************************************************************************)
(* The mapping collected_images = defaultdict(lambda: {'high': set(),      *)
(* 'low': set()}): a key exists once something was added under it.         *)
(***************************************************************************)
EmptyMap == [x \in {} |-> x]

EmptyRecord == [high |-> {}, low |-> {}]

\* collected_images[md5(path of u)][tier].add(u)
AddUrl(m, tier, u) ==
  LET id == Identifier(u)
  IN  IF id \in DOMAIN m
        THEN [m EXCEPT ![id][tier] = @ \cup {u}]
        ELSE m @@ (id :> [EmptyRecord EXCEPT ![tier] = {u}])

\* all URLs of one tier, whatever the identifier
TierUrls(m, tier) == UNION {m[id][tier] : id \in DOMAIN m}

(***************************************************************************)
(* srcset processing.  An entry of srcset.split(',') is [url, kind, dens]: *)
(* kind "none" = no second token or one not ending in 'x', kind "bad" = a  *)
(* token ending in 'x' that float() rejects, kind "num" = density dens.    *)
(***************************************************************************)
Entries ==
  [url : AllUrls, kind : {"none", "bad"}, dens : {0}]
    \cup [url : AllUrls, kind : {"num"}, dens : 1..MaxDensity]

SeqsUpTo(S, n) == UNION {[1..k -> S] : k \in 0..n}

\* a mutant of SrcsetEntry: every entry that raises the maximum goes to high at once
SrcsetEntryEager(st, e) ==
  IF ~StartsWithHttp(e.url) THEN st
  ELSE IF e.kind = "num"
    THEN IF e.dens > st.highest_density
           THEN [m |-> AddUrl(st.m, "high", e.url),
                 highest_density |-> e.dens, highest_url |-> e.url]
           ELSE st
    ELSE [st EXCEPT !.m = AddUrl(st.m, "low", e.url)]

\* one pass of the body of "for entry in srcset.split(',')"
SrcsetEntry(st, e) ==
  IF ~StartsWithHttp(e.url) THEN st
  ELSE IF e.kind = "num"
    THEN IF e.dens > st.highest_density
           THEN [st EXCEPT !.highest_density = e.dens, !.highest_url = e.url]
           ELSE st
    ELSE \* no density (else branch) or ValueError (except branch)
         [st EXCEPT !.m = AddUrl(st.m, "low", e.url)]

RECURSIVE SrcsetLoop(_, _, _)
SrcsetLoop(st, srcset, i) ==
  IF i > Len(srcset) THEN st
  ELSE SrcsetLoop(SrcsetEntry(st, srcset[i]), srcset, i + 1)

\* "if srcset:" down to the add of highest_url
ProcessSrcset(m, srcset) ==
  IF srcset = <<>> THEN m
  ELSE LET st == SrcsetLoop([m |-> m, highest_density |-> 0, highest_url |-> NoUrl],
                            srcset, 1)
       IN  IF st.highest_url # NoUrl
             THEN AddUrl(st.m, "high", st.highest_url)
             ELSE st.m

(***************************************************************************)
(* sanitize_filename.  A file name is [hash, suffix, ext].                 *)
(***************************************************************************)
Chars == {"a", ".", "/"}

\* str.rfind(c), 1-based: 0 when c does not occur
RFind(p, c) ==
  LET hits == {i \in 1..Len(p) : p[i] = c}
  IN  IF hits = {} THEN 0 ELSE CHOOSE i \in hits : \A j \in hits : j <= i

\* the while loop of os.path.splitext skipping leading dots
RECURSIVE SplitextScan(_, _, _)
SplitextScan(p, filenameIndex, dotIndex) ==
  IF filenameIndex >= dotIndex THEN <<>>
  ELSE IF p[filenameIndex] # "." THEN SubSeq(p, dotIndex, Len(p))
  ELSE SplitextScan(p, filenameIndex + 1, dotIndex)

\* os.path.splitext(p)[1]
Splitext(p) ==
  LET sepIndex == RFind(p, "/")
      dotIndex == RFind(p, ".")
  IN  IF dotIndex > sepIndex THEN SplitextScan(p, sepIndex + 1, dotIndex) ELSE <<>>

DotJpg == <<".", "j", "p", "g">>

ExtLimit == 5

\* a mutant of FileExt: the limit the prose states
FileExtLimit4(url) ==
  LET ext == Splitext(UrlPath(url))
  IN  IF ext = <<>> \/ Len(ext) > 4 THEN DotJpg ELSE ext

\* ext = os.path.splitext(urlparse(url).path)[1], replaced by ".jpg"
FileExt(url) ==
  LET ext == Splitext(UrlPath(url))
  IN  IF ext = <<>> \/ Len(ext) > ExtLimit THEN DotJpg ELSE ext

\* a mutant of sanitize_filename: the quality is left out of the name
sanitize_filename_noquality(url, quality) ==
  [hash |-> Md5(url), suffix |-> "", ext |-> FileExt(url)]

sanitize_filename(url, quality) ==
  IF quality # None
    THEN [hash |-> Md5(url), suffix |-> quality, ext |-> FileExt(url)]
    ELSE [hash |-> Md5(url), suffix |-> "", ext |-> FileExt(url)]

(***************************************************************************)
(* Values of the variables of a part that is not running.                  *)
(***************************************************************************)
IdleCollector ==
  /\ pc = "idle" /\ last_height = 0 /\ page_height = 0 /\ marker_res = "none"
  /\ collected = EmptyMap /\ result = EmptyMap /\ scrolls = 0 /\ scanned = 0
  /\ scanned_src = {} /\ excl_scanned = FALSE /\ excl_changed = FALSE

IdleFn == fn_pc = "idle" /\ fn_in = <<>> /\ fn_out = <<>>

IdleDownload ==
  /\ image_dict = <<>> /\ quality_pref = "none" /\ dpc = "idle" /\ idx = 0
  /\ urls_to_download = <<>> /\ download_count = 0 /\ skipped_count = 0
  /\ files = {} /\ cur_log = <<>> /\ attempted = 0 /\ failed = 0
  /\ run = 0 /\ files_run1 = {}

\* no progress.emit yet
NoPercent == -1

\* self.current_folder = None
NoFolder == 0

\* the window has no attribute thumbnail_loader
NoLoader == [id |-> 0, folder |-> NoFolder, n |-> 0, i |-> 0,
             is_running |-> FALSE, alive |-> FALSE]

IdleRun ==
  /\ mode = "none" /\ run_pc = "idle" /\ session = "none"
  /\ total = 0 /\ count = 0 /\ percent = NoPercent /\ prev_percent = NoPercent

IdleWindow ==
  /\ go_enabled = FALSE /\ bar_format = "" /\ sigq = <<>>
  /\ active = 0 /\ runs = 0 /\ handled = 0
  /\ current_folder = NoFolder /\ image_files = 0
  /\ thumbnail_loader = NoLoader /\ loaders = 0 /\ minimap = <<>>
  /\ thumbq = <<>> /\ cleared_running = FALSE /\ closed = FALSE

IdleGui == IdleRun /\ IdleWindow

(***************************************************************************)
(* The srcset processing of one element, applied to an empty mapping.      *)
(***************************************************************************)
Srcsets == SeqsUpTo(Entries, MaxEntries)

InitSrcset ==
  /\ IdleCollector /\ IdleDownload /\ IdleGui
  /\ fn_pc = "srcset" /\ fn_in \in Srcsets /\ fn_out = EmptyMap

ApplySrcset ==
  /\ fn_pc = "srcset"
  /\ fn_out' = ProcessSrcset(EmptyMap, fn_in)
  /\ fn_pc' = "srcset_done"
  /\ UNCHANGED <<fn_in, cvars, dvars, gvars>>

SpecSrcset == InitSrcset /\ [][ApplySrcset]_vars

(***************************************************************************)
(* sanitize_filename applied to one URL.                                   *)
(***************************************************************************)
NameInputs ==
  [url : [scheme : {"https"}, path : SeqsUpTo(Chars, MaxPathLen), query : {"", "w=236"}],
   quality : {None, "high", "low"}]

NoName == [hash |-> <<>>, suffix |-> "", ext |-> <<>>]

InitFilename ==
  /\ IdleCollector /\ IdleDownload /\ IdleGui
  /\ fn_pc = "name" /\ fn_in \in NameInputs /\ fn_out = NoName

ApplySanitize ==
  /\ fn_pc = "name"
  /\ fn_out' = sanitize_filename(fn_in.url, fn_in.quality)
  /\ fn_pc' = "name_done"
  /\ UNCHANGED <<fn_in, cvars, dvars, gvars>>

SpecFilename == InitFilename /\ [][ApplySanitize]_vars

(***************************************************************************)
(* C3                                                                      *)
(***************************************************************************)
NumericEntries(ss) ==
  {i \in 1..Len(ss) : StartsWithHttp(ss[i].url) /\ ss[i].kind = "num"}

PlainEntries(ss) ==
  {i \in 1..Len(ss) : StartsWithHttp(ss[i].url) /\ ss[i].kind # "num"}

\* the entry of highest density, the earliest one when several share it
TopEntry(ss) ==
  CHOOSE i \in NumericEntries(ss) :
    \A j \in NumericEntries(ss) :
      ss[j].dens < ss[i].dens \/ (ss[j].dens = ss[i].dens /\ i <= j)

ExtStart(p, k) ==
  /\ k \in 1..Len(p) /\ p[k] = "."
  /\ \A j \in (k + 1)..Len(p) : p[j] \notin {".", "/"}
  /\ \E j \in 1..(k - 1) :
       /\ p[j] # "."
       /\ \A l \in j..(k - 1) : p[l] # "/"

PathExt(p) ==
  IF \E k \in 1..Len(p) : ExtStart(p, k)
    THEN SubSeq(p, CHOOSE k \in 1..Len(p) : ExtStart(p, k), Len(p))
    ELSE <<>>

\* C9 as stated: the extension of the path is kept when it has at most 4
\* characters including the dot, and .jpg is used otherwise.
C9_ExtAtMost4 ==
  fn_pc = "name_done" =>
    LET e == PathExt(fn_in.url.path)
    IN  fn_out.ext = (IF e # <<>> /\ Len(e) <= 4 THEN e ELSE DotJpg)

\* C9 amended: the extension of the path is kept when it has at most 5
\* characters including the dot, and .jpg is used when it is absent or longer.
C9_ExtAtMost5 ==
  fn_pc = "name_done" =>
    LET e == PathExt(fn_in.url.path)
    IN  fn_out.ext = (IF e # <<>> /\ Len(e) <= 5 THEN e ELSE DotJpg)

\* an extension of 5 characters has been kept
C9_Witness ==
  /\ fn_pc = "name_done"
  /\ PathExt(fn_in.url.path) = <<".", "a", "a", "a", "a">>
  /\ fn_out.ext = <<".", "a", "a", "a", "a">>

(***************************************************************************)
(* scroll_and_collect.  An img element is [excluded, stale, src, srcset]:  *)
(* excluded = it has an ancestor with data-test-id 'more-ideas-container', *)
(* stale = the call on the element that raises                             *)
(* StaleElementReferenceException ("no": none does).                       *)
(***************************************************************************)
\* the srcsets of the elements the loop meets: no entry or a single one
LoopSrcsets == {<<>>} \cup {<<e>> : e \in Entries}

Imgs ==
  [excluded : BOOLEAN,
   stale : {"no", "ancestor", "src", "srcset"},
   src : AllUrls \cup {NoUrl},
   srcset : LoopSrcsets]

\* a mutant of ProcessImg: the ancestor check is not made
ProcessImgNoExclusion(m, img) ==
  IF img.stale \in {"ancestor", "src"} THEN m
  ELSE LET m1 == IF img.src # NoUrl /\ StartsWithHttp(img.src)
                   THEN AddUrl(m, "low", img.src) ELSE m
       IN  IF img.stale = "srcset" THEN m1 ELSE ProcessSrcset(m1, img.srcset)

\* the body of "for img in imgs"
ProcessImg(m, img) ==
  IF img.stale = "ancestor" THEN m          \* inner except: continue
  ELSE IF img.excluded THEN m               \* if in_more_ideas: continue
  ELSE IF img.stale = "src" THEN m          \* outer except: continue
  ELSE LET m1 == IF img.src # NoUrl /\ StartsWithHttp(img.src)
                   THEN AddUrl(m, "low", img.src) ELSE m
       IN  IF img.stale = "srcset" THEN m1  \* outer except, src already added
           ELSE ProcessSrcset(m1, img.srcset)

\* "if driver.find_elements(css selector ...)" with its except: pass
\* a raising marker query taken as a reason to stop
MarkerStopsOnError(res) == res \in {"found", "raises"}

MarkerStops(res) == res = "found"

\* a mutant of HeightStops: stops as soon as the page has not shrunk
HeightStopsGrown(new_height, last) == new_height >= last

\* "if new_height == last_height"
HeightStops(new_height, last) == new_height = last

Init ==
  /\ IdleFn /\ IdleDownload /\ IdleGui
  /\ pc = "start" /\ last_height = 0 /\ page_height = 0 /\ marker_res = "none"
  /\ collected = EmptyMap /\ result = EmptyMap /\ scrolls = 0 /\ scanned = 0
  /\ scanned_src = {} /\ excl_scanned = FALSE /\ excl_changed = FALSE

\* collected_images = defaultdict(...); last_height = scrollHeight
Start ==
  /\ pc = "start"
  /\ \E h \in 1..MaxHeight : last_height' = h
  /\ pc' = "scroll"
  /\ UNCHANGED <<page_height, marker_res, collected, result, scrolls, scanned,
                 scanned_src, excl_scanned, excl_changed, fvars, dvars, gvars>>

\* window.scrollTo, sleep, find_elements("tag name", "img")
Scroll ==
  /\ pc = "scroll"
  /\ scrolls < MaxIter
  /\ scrolls' = scrolls + 1
  /\ page_height' = 0            \* new_height is not read yet
  /\ marker_res' = "none"        \* the marker is not queried yet
  /\ scanned' = 0
  /\ scanned_src' = {}
  /\ pc' = "scan"
  /\ UNCHANGED <<last_height, collected, result, excl_scanned, excl_changed,
                 fvars, dvars, gvars>>

\* one element of "for img in imgs"
ScanImg ==
  /\ pc = "scan"
  /\ scanned < MaxImgs
  /\ \E img \in Imgs :
       /\ collected' = ProcessImg(collected, img)
       /\ scanned_src' =
            IF /\ ~img.excluded /\ img.stale \notin {"ancestor", "src"}
               /\ img.src # NoUrl /\ StartsWithHttp(img.src)
              THEN scanned_src \cup {img.src} ELSE scanned_src
       /\ excl_scanned' =
            (excl_scanned \/
               (/\ img.excluded /\ img.stale = "no"
                /\ img.src # NoUrl /\ StartsWithHttp(img.src)
                /\ \E i \in 1..Len(img.srcset) : StartsWithHttp(img.srcset[i].url)))
       /\ excl_changed' =
            (excl_changed \/ (img.excluded /\ collected' # collected))
  /\ scanned' = scanned + 1
  /\ UNCHANGED <<pc, last_height, page_height, marker_res, result, scrolls,
                 fvars, dvars, gvars>>

\* the elements are exhausted: the query for the More ideas container finds
\* it, finds nothing, or raises
CheckMarker ==
  /\ pc = "scan"
  /\ \E r \in {"found", "absent", "raises"} :
       /\ marker_res' = r
       /\ IF MarkerStops(r)
            THEN pc' = "done" /\ result' = collected       \* break; return
            ELSE pc' = "height" /\ result' = result
  /\ UNCHANGED <<last_height, page_height, collected, scrolls, scanned,
                 scanned_src, excl_scanned, excl_changed, fvars, dvars, gvars>>

\* new_height = scrollHeight and the check for the end of the page
CheckHeight ==
  /\ pc = "height"
  /\ \E h \in 1..MaxHeight :
       /\ page_height' = h
       /\ IF HeightStops(h, last_height)
            THEN pc' = "done" /\ result' = collected /\ last_height' = last_height
            ELSE pc' = "scroll" /\ result' = result /\ last_height' = h
  /\ UNCHANGED <<marker_res, collected, scrolls, scanned,
                 scanned_src, excl_scanned, excl_changed, fvars, dvars, gvars>>

Next == Start \/ Scroll \/ ScanImg \/ CheckMarker \/ CheckHeight

Spec == Init /\ [][Next]_vars

(***************************************************************************)
(* C1                                                                      *)
(***************************************************************************)
\* every URL read as the src of an element of this iteration is in mapping m
ScannedKept(m) ==
  \A u \in scanned_src : Identifier(u) \in DOMAIN m /\ u \in m[Identifier(u)].low

\* C1: the loop stops at the end of an iteration exactly when that iteration's
\* marker query finds the marker or its page height equals the height recorded
\* before (a stopped loop saw one of the two, a loop that goes on to the next
\* scroll saw neither); once stopped it issues no further scroll; and what the
\* stopping iteration scanned is in the returned mapping.
C1_StopsExactlyThen ==
  /\ [](pc = "done" => (marker_res = "found" \/ page_height = last_height))
  /\ [](pc = "done" => (result = collected /\ ScannedKept(result)))
  /\ [][(pc = "scan" /\ marker_res' = "found") => pc' = "done"]_vars
  /\ [][(pc = "height" /\ page_height' = last_height) => pc' = "done"]_vars
  /\ [][(pc \in {"scan", "height"} /\ pc' = "scroll")
          => (pc = "height" /\ marker_res # "found" /\ page_height' # last_height)]_vars
  /\ [][pc = "done" => (pc' = "done" /\ scrolls' = scrolls)]_vars

\* the loop went on after the first iteration and stopped in the second on the
\* page height, having scanned an element with an http src
C1_Witness ==
  /\ pc = "done" /\ scrolls = 2
  /\ marker_res = "absent" /\ page_height = last_height
  /\ scanned_src # {} /\ ScannedKept(result)

(***************************************************************************)
(* C2                                                                      *)
(***************************************************************************)
\* C2: scanning an element that has a 'more-ideas-container' ancestor never
\* changes the mapping: none of its URLs enters a high or a low set.
C2_ExcludedAddNothing == ~excl_changed

\* an excluded element with an http src and an http srcset entry was scanned,
\* and the mapping returned is still empty
C2_Witness == excl_scanned /\ pc = "done" /\ result = EmptyMap

(***************************************************************************)
(* C4                                                                      *)
(***************************************************************************)
\* C4: no URL is in both the high set and the low set of one identifier.
C4_NoUrlInBothTiers ==
  \A id \in DOMAIN collected : collected[id].high \cap collected[id].low = {}

(***************************************************************************)
(* download_images.  image_dict is given in dict order as a sequence of    *)
(* [high, low]; the identifier of an entry is its position.                *)
(***************************************************************************)
DlUrls == {UrlA, UrlB}

Policies == {"high-only", "prioritize-high", "all"}

Mappings == SeqsUpTo([high : SUBSET DlUrls, low : SUBSET DlUrls], MaxIds)

\* the try block ends normally; requests.get, raise_for_status or open raises
\* (no file); or a later statement raises, after open has created the file
Outcomes == {"ok", "fetch_error", "write_error"}

\* (list(s)[0], quality) for any member: a set has no order
Pick(s, quality) == {[url |-> u, quality |-> quality] : u \in s}

\* a mutant of Selections: high-only falls back to the low set
SelectionsFallBack(q, pref) ==
  IF q.high # {} THEN {<<c>> : c \in Pick(q.high, "high")}
  ELSE IF q.low # {} THEN {<<c>> : c \in Pick(q.low, "low")}
  ELSE {<<>>}

\* a mutant of Selections: prioritize-high looks at the low set first
SelectionsLowFirst(q, pref) ==
  IF q.low # {} THEN {<<c>> : c \in Pick(q.low, "low")}
  ELSE IF q.high # {} THEN {<<c>> : c \in Pick(q.high, "high")}
  ELSE {<<>>}

\* the values urls_to_download can take for one identifier; <<>> is the skip
Selections(q, pref) ==
  IF pref = "high-only"
    THEN IF q.high # {} THEN {<<c>> : c \in Pick(q.high, "high")} ELSE {<<>>}
  ELSE IF pref = "prioritize-high"
    THEN IF q.high # {} THEN {<<c>> : c \in Pick(q.high, "high")}
         ELSE IF q.low # {} THEN {<<c>> : c \in Pick(q.low, "low")}
         ELSE {<<>>}
  ELSE \* 'all'
    LET hs == IF q.high # {} THEN {<<c>> : c \in Pick(q.high, "high")} ELSE {<<>>}
        ls == IF q.low # {} THEN {<<c>> : c \in Pick(q.low, "low")} ELSE {<<>>}
    IN  {h \o l : h \in hs, l \in ls}

\* fname = sanitize_filename(img_url, quality) if 'all' else sanitize_filename(img_url)
FileName(c, pref) ==
  IF pref = "all" THEN sanitize_filename(c.url, c.quality)
  ELSE sanitize_filename(c.url, None)

\* a mutant of WriteFile: an existing file is kept and a copy written beside it
WriteFileBeside(fs, fname) ==
  IF fname \in fs THEN fs \cup {[fname EXCEPT !.suffix = "copy"]} ELSE fs \cup {fname}

\* with open(path, "wb") as f: f.write(resp.content)
WriteFile(fs, fname) == fs \cup {fname}

InitDownload ==
  /\ IdleCollector /\ IdleFn /\ IdleGui
  /\ image_dict \in Mappings
  /\ quality_pref \in Policies
  /\ dpc = "loop" /\ idx = 1 /\ urls_to_download = <<>>
  /\ download_count = 0 /\ skipped_count = 0
  /\ files = {} /\ cur_log = <<>> /\ attempted = 0 /\ failed = 0
  /\ run = 1 /\ files_run1 = {}

\* the head of "for img_id, quality_urls in image_dict.items()"
Select ==
  /\ dpc = "loop"
  /\ idx <= Len(image_dict)
  /\ \E sel \in Selections(image_dict[idx], quality_pref) :
       IF sel = <<>>
         THEN /\ skipped_count' = skipped_count + 1       \* continue
              /\ idx' = idx + 1
              /\ UNCHANGED <<dpc, urls_to_download>>
         ELSE /\ urls_to_download' = sel
              /\ dpc' = "fetch"
              /\ UNCHANGED <<skipped_count, idx>>
  /\ cur_log' = <<>>
  /\ UNCHANGED <<image_dict, quality_pref, download_count, files, attempted,
                 failed, run, files_run1, cvars, fvars, gvars>>

\* the request for c with outcome o, as the history records it
Attempt(c, o) ==
  [id |-> idx, url |-> c.url, quality |-> c.quality, outcome |-> o,
   fname |-> FileName(c, quality_pref)]

\* a mutant of Fetch: nothing catches the failure of a download
FetchAborts ==
  /\ dpc = "fetch"
  /\ LET c == Head(urls_to_download)
     IN  \E o \in Outcomes :
           /\ cur_log' = Append(cur_log, Attempt(c, o))
           /\ attempted' = attempted + 1
           /\ IF o = "ok"
                THEN /\ files' = WriteFile(files, FileName(c, quality_pref))
                     /\ download_count' = download_count + 1
                     /\ failed' = failed
                     /\ urls_to_download' = Tail(urls_to_download)
                     /\ IF Tail(urls_to_download) = <<>>
                          THEN idx' = idx + 1 /\ dpc' = "loop"
                          ELSE UNCHANGED <<idx, dpc>>
                ELSE /\ dpc' = "done"
                     /\ failed' = failed + 1
                     /\ UNCHANGED <<files, download_count, urls_to_download, idx>>
  /\ UNCHANGED <<image_dict, quality_pref, skipped_count, run, files_run1,
                 cvars, fvars, gvars>>

\* one pass of "for img_url, quality in urls_to_download", try and except
Fetch ==
  /\ dpc = "fetch"
  /\ LET c == Head(urls_to_download)
     IN  \E o \in Outcomes :
           /\ cur_log' = Append(cur_log, Attempt(c, o))
           /\ attempted' = attempted + 1
           /\ IF o = "ok"
                THEN /\ files' = WriteFile(files, FileName(c, quality_pref))
                     /\ download_count' = download_count + 1
                     /\ failed' = failed
                ELSE \* except Exception: print
                     /\ download_count' = download_count
                     /\ failed' = failed + 1
                     /\ files' = IF o = "write_error"
                                   THEN WriteFile(files, FileName(c, quality_pref))
                                   ELSE files
  /\ urls_to_download' = Tail(urls_to_download)
  /\ IF Tail(urls_to_download) = <<>>
       THEN idx' = idx + 1 /\ dpc' = "loop"
       ELSE UNCHANGED <<idx, dpc>>
  /\ UNCHANGED <<image_dict, quality_pref, skipped_count, run, files_run1,
                 cvars, fvars, gvars>>

\* the loop is over: print of the download summary
Summary ==
  /\ dpc = "loop"
  /\ idx > Len(image_dict)
  /\ dpc' = "done"
  /\ UNCHANGED <<image_dict, quality_pref, idx, urls_to_download, download_count,
                 skipped_count, files, cur_log, attempted, failed, run, files_run1,
                 cvars, fvars, gvars>>

NextDownload == Select \/ Fetch \/ Summary

SpecDownload == InitDownload /\ [][NextDownload]_vars

\* after a run in which every download succeeded, download_images is called
\* again with the same mapping, output_dir and policy
Rerun ==
  /\ dpc = "done"
  /\ run = 1
  /\ failed = 0
  /\ run' = 2
  /\ files_run1' = files
  /\ dpc' = "loop" /\ idx' = 1 /\ urls_to_download' = <<>>
  /\ download_count' = 0 /\ skipped_count' = 0
  /\ cur_log' = <<>> /\ attempted' = 0
  /\ UNCHANGED <<image_dict, quality_pref, files, failed, cvars, fvars, gvars>>

NextRerun == Select \/ Fetch \/ Summary \/ Rerun

SpecRerun == InitDownload /\ [][NextRerun]_vars

(***************************************************************************)
(* What the policies ask for, stated per identifier and tier.              *)
(***************************************************************************)
\* the identifiers the for loop has finished with
Processed == 1..(idx - 1)

\* policy pref asks for a URL of tier t of the identifier with sets q
TierWanted(q, t, pref) ==
  \/ pref = "high-only" /\ t = "high" /\ q.high # {}
  \/ pref = "prioritize-high" /\ t = "high" /\ q.high # {}
  \/ pref = "prioritize-high" /\ t = "low" /\ q.high = {} /\ q.low # {}
  \/ pref = "all" /\ q[t] # {}

\* the number of URLs the policy asks for among the first n identifiers
Wanted(n) ==
  Cardinality({it \in (1..n) \X {"high", "low"} :
                 TierWanted(image_dict[it[1]], it[2], quality_pref)})

WantedOf(i) ==
  Cardinality({t \in {"high", "low"} : TierWanted(image_dict[i], t, quality_pref)})

(***************************************************************************)
(* C5                                                                      *)
(***************************************************************************)
\* C5: under 'high-only' a request is issued only for an identifier whose high
\* set is non-empty, for exactly one URL, a member of that high set; every
\* identifier with an empty high set adds one to the skipped count and gets no
\* request and no file.
C5_HighOnly ==
  quality_pref = "high-only" =>
    /\ dpc = "fetch" =>
         /\ image_dict[idx].high # {}
         /\ Len(urls_to_download) = 1
         /\ urls_to_download[1].url \in image_dict[idx].high
    /\ \A k \in 1..Len(cur_log) :
         /\ Len(cur_log) = 1
         /\ cur_log[k].url \in image_dict[cur_log[k].id].high
    /\ skipped_count = Cardinality({i \in Processed : image_dict[i].high = {}})
    /\ attempted = Cardinality({i \in Processed : image_dict[i].high # {}})
    /\ \A f \in files :
         \E i \in 1..Len(image_dict) : \E u \in image_dict[i].high : f.hash = Md5(u)

\* a run is over that skipped an identifier having only low URLs and picked
\* one of the two high URLs of another
C5_Witness ==
  /\ quality_pref = "high-only" /\ dpc = "done"
  /\ \E i \in 1..Len(image_dict) : image_dict[i].high = {} /\ image_dict[i].low # {}
  /\ \E i \in 1..Len(image_dict) : Cardinality(image_dict[i].high) = 2
  /\ skipped_count = 1 /\ download_count = 1 /\ Cardinality(files) = 1

(***************************************************************************)
(* C6                                                                      *)
(***************************************************************************)
\* C6: under 'all', once the loop is through an identifier with both sets
\* non-empty whose two downloads succeeded, two files were written for it, one
\* for a high URL under a name with the high suffix and one for a low URL under
\* a name with the low suffix; the two names differ and both files exist.
C6_AllTwoFiles ==
  (quality_pref = "all" /\ dpc \in {"loop", "done"} /\ cur_log # <<>>) =>
    LET q == image_dict[cur_log[1].id]
    IN  (/\ q.high # {} /\ q.low # {}
         /\ \A k \in 1..Len(cur_log) : cur_log[k].outcome = "ok")
        => /\ Len(cur_log) = 2
           /\ cur_log[1].url \in q.high /\ cur_log[1].fname.suffix = "high"
           /\ cur_log[2].url \in q.low /\ cur_log[2].fname.suffix = "low"
           /\ cur_log[1].fname # cur_log[2].fname
           /\ {cur_log[1].fname, cur_log[2].fname} \subseteq files

\* the same URL was picked from the high and from the low set and written twice
C6_Witness ==
  /\ quality_pref = "all" /\ dpc \in {"loop", "done"} /\ Len(cur_log) = 2
  /\ cur_log[1].url = cur_log[2].url
  /\ cur_log[1].outcome = "ok" /\ cur_log[2].outcome = "ok"
  /\ cur_log[1].fname # cur_log[2].fname
  /\ {cur_log[1].fname, cur_log[2].fname} \subseteq files

(***************************************************************************)
(* C7                                                                      *)
(***************************************************************************)
HasUrl(q) == q.high \cup q.low # {}

\* C7: under 'prioritize-high' exactly one URL is selected for an identifier
\* with a URL, from the high set when that is non-empty and from the low set
\* otherwise; an identifier with no URL is selected nothing and counted as
\* skipped; when no download failed the summary counts as downloaded the
\* identifiers with a URL and as skipped those with none.
C7_PrioritizeHigh ==
  quality_pref = "prioritize-high" =>
    /\ dpc = "fetch" =>
         LET q == image_dict[idx]
             c == urls_to_download[1]
         IN  /\ Len(urls_to_download) = 1
             /\ q.high # {} => (c.quality = "high" /\ c.url \in q.high)
             /\ q.high = {} => (c.quality = "low" /\ c.url \in q.low)
    /\ skipped_count = Cardinality({i \in Processed : ~HasUrl(image_dict[i])})
    /\ attempted = Cardinality({i \in Processed : HasUrl(image_dict[i])})
    /\ (dpc = "done" /\ failed = 0) =>
         /\ download_count =
              Cardinality({i \in 1..Len(image_dict) : HasUrl(image_dict[i])})
         /\ skipped_count =
              Cardinality({i \in 1..Len(image_dict) : ~HasUrl(image_dict[i])})

\* a run is over that fell back to the low set for one identifier and skipped
\* another that has no URL
C7_Witness ==
  /\ quality_pref = "prioritize-high" /\ dpc = "done" /\ failed = 0
  /\ \E i \in 1..Len(image_dict) :
       image_dict[i].high = {} /\ Cardinality(image_dict[i].low) = 2
  /\ \E i \in 1..Len(image_dict) : ~HasUrl(image_dict[i])
  /\ download_count = 1 /\ skipped_count = 1

(***************************************************************************)
(* C8                                                                      *)
(***************************************************************************)
\* C8 as stated: after a second run in which, as in the first, every download
\* succeeded, the output directory holds the files the first run left.
C8_SameFilesAfterRerun ==
  (run = 2 /\ dpc = "done" /\ failed = 0) => files = files_run1

Singletons ==
  \A i \in 1..Len(image_dict) :
    Cardinality(image_dict[i].high) <= 1 /\ Cardinality(image_dict[i].low) <= 1

\* C8 amended: for a mapping whose high and low sets have at most one member
\* each, the second run writes only at paths the first run wrote: at every
\* point of it the output directory holds the files the first run left.
C8_SameFilesSingletons ==
  (run = 2 /\ failed = 0 /\ Singletons) => files = files_run1

\* a second run over single-member sets is over and has written again
C8_Witness ==
  /\ run = 2 /\ dpc = "done" /\ failed = 0 /\ Singletons
  /\ attempted >= 2 /\ Cardinality(files) >= 2 /\ files = files_run1

C11_RaisingQueryNeverStops == pc = "done" => marker_res # "raises"

\* C11 amended: a raising marker query does not stop the loop and changes
\* neither the collected nor the returned mapping; the iteration goes on to
\* the page-height check, which stops it only when the page height equals the
\* height recorded before and otherwise sends the collector to the next scroll
C11_RaisingQueryIsAbsent ==
  /\ [][(pc = "scan" /\ marker_res' = "raises")
          => (pc' = "height" /\ collected' = collected /\ result' = result)]_vars
  /\ []((pc = "done" /\ marker_res = "raises") => page_height = last_height)
  /\ [][(pc = "height" /\ marker_res = "raises" /\ page_height' # last_height)
          => (pc' = "scroll" /\ collected' = collected)]_vars
  /\ [][(pc = "height" /\ marker_res = "raises" /\ page_height' = last_height)
          => (pc' = "done" /\ result' = collected)]_vars

\* the marker query of the first iteration raised with a URL collected, the
\* page had grown, and the collector is at its second scroll
C11_Witness ==
  /\ pc = "scroll" /\ scrolls = 1 /\ marker_res = "raises"
  /\ collected # EmptyMap /\ page_height = last_height /\ page_height > 0

(***************************************************************************)
(* One run of Collector and Downloader: main() of src/download_images.py   *)
(* in CLI mode, DownloadThread.run of src/ui/window.py in GUI mode.        *)
(***************************************************************************)
MaxRunIds == 2       \* identifiers of a mapping the collector of a run returns
MaxRuns == 2         \* DownloadThread runs started in one window
MaxProgressIds == 25 \* identifiers of a mapping given to the progress report
MaxFolders == 2      \* board folders of the tree
MaxFiles == 2        \* image files of a folder
MaxLoaders == 3      \* ThumbnailLoader threads started by folder selections

\* what scroll_and_collect returns to a run
RunRecords == [high : SUBSET {UrlA}, low : SUBSET {UrlB}]
RunMappings == SeqsUpTo(RunRecords, MaxRunIds)

\* sum(len(q['high']) + len(q['low']) for q in image_dict.values())
RECURSIVE TotalUrls(_)
TotalUrls(m) ==
  IF m = <<>> THEN 0
  ELSE Cardinality(Head(m).high) + Cardinality(Head(m).low) + TotalUrls(Tail(m))

\* the (count, total) with total <= 130 for which the double (count / total) * 100
\* lies below the integer 100 * count / total: 29/50 is 0.58 and 0.58 * 100 is
\* 57.99999999999999
ProductBelow == {<<29, 50>>, <<29, 100>>, <<57, 100>>, <<58, 100>>}

\* int((count / total) * 100) if total else 0
Percent(c, t) ==
  IF t = 0 THEN 0
  ELSE IF <<c, t>> \in ProductBelow THEN ((100 * c) \div t) - 1
  ELSE (100 * c) \div t

\* a mutant of QuitSession: the session is left open
QuitSessionForgotten(s) == s

\* driver.quit()
QuitSession(s) == "closed"

\* an exception leaves the run: out of main() in CLI mode, into the except
\* clause of DownloadThread.run (self.error.emit(str(e))) in GUI mode
RunFails ==
  IF mode = "gui"
    THEN /\ sigq' = Append(sigq, "error")
         /\ run_pc' = "ended"
         /\ active' = active - 1
    ELSE /\ run_pc' = "crashed"
         /\ UNCHANGED <<sigq, active>>

\* driver = setup_driver()
SetupDriver ==
  /\ run_pc = "setup"
  /\ \/ /\ session' = "open"
        /\ run_pc' = "get"
        /\ UNCHANGED <<sigq, active>>
     \/ /\ RunFails
        /\ UNCHANGED session
  /\ UNCHANGED <<mode, total, count, percent, prev_percent, go_enabled, bar_format,
                 runs, handled, tvars, cvars, fvars, dvars>>

\* driver.get(url)
GetPage ==
  /\ run_pc = "get"
  /\ \/ /\ run_pc' = "collect"
        /\ UNCHANGED <<sigq, active>>
     \/ RunFails
  /\ UNCHANGED <<mode, session, total, count, percent, prev_percent, go_enabled,
                 bar_format, runs, handled, tvars, cvars, fvars, dvars>>

\* image_dict = scroll_and_collect(driver, scroll_pause)
Collect ==
  /\ run_pc = "collect"
  /\ \/ /\ image_dict' \in RunMappings
        /\ run_pc' = "quit"
        /\ UNCHANGED <<sigq, active>>
     \/ /\ RunFails
        /\ UNCHANGED image_dict
  /\ UNCHANGED <<mode, session, total, count, percent, prev_percent, go_enabled,
                 bar_format, runs, handled, tvars, cvars, fvars,
                 quality_pref, dpc, idx, urls_to_download, download_count,
                 skipped_count, files, cur_log, attempted, failed, run, files_run1>>

\* driver.quit()
Quit ==
  /\ run_pc = "quit"
  /\ \/ /\ session' = QuitSession(session)
        /\ run_pc' = IF mode = "gui" THEN "total" ELSE "call"
        /\ UNCHANGED <<sigq, active>>
     \/ /\ RunFails
        /\ session' \in {"open", "closed"}
  /\ UNCHANGED <<mode, total, count, percent, prev_percent, go_enabled, bar_format,
                 runs, handled, tvars, cvars, fvars, dvars>>

\* CLI: download_images(image_dict, args.output_dir, args.quality) is entered
\* (os.makedirs may raise)
CallDownload ==
  /\ run_pc = "call"
  /\ \/ /\ run_pc' = "downloading"
        /\ dpc' = "loop" /\ idx' = 1 /\ run' = 1
     \/ /\ run_pc' = "crashed"
        /\ UNCHANGED <<dpc, idx, run>>
  /\ UNCHANGED <<mode, session, total, count, percent, prev_percent, go_enabled,
                 bar_format, sigq, active, runs, handled, tvars, cvars, fvars,
                 image_dict, quality_pref, urls_to_download, download_count,
                 skipped_count, files, cur_log, attempted, failed, files_run1>>

\* CLI: download_images has returned and main() ends
MainReturns ==
  /\ run_pc = "downloading"
  /\ dpc = "done"
  /\ run_pc' = "ended"
  /\ UNCHANGED <<mode, session, total, count, percent, prev_percent, go_enabled,
                 bar_format, sigq, active, runs, handled, tvars, cvars, fvars, dvars>>

\* GUI: total and count are set and patched_download_images is entered
\* (os.makedirs may raise)
ComputeTotal ==
  /\ run_pc = "total"
  /\ total' = TotalUrls(image_dict)
  /\ count' = 0
  /\ \/ /\ run_pc' = "download"
        /\ dpc' = "ploop" /\ idx' = 1
        /\ UNCHANGED <<sigq, active>>
     \/ /\ RunFails
        /\ UNCHANGED <<dpc, idx>>
  /\ UNCHANGED <<mode, session, percent, prev_percent, go_enabled, bar_format,
                 runs, handled, tvars, cvars, fvars,
                 image_dict, quality_pref, urls_to_download, download_count,
                 skipped_count, files, cur_log, attempted, failed, run, files_run1>>

\* the head of the for loop of patched_download_images: the selection
PatchedSelect ==
  /\ run_pc = "download"
  /\ dpc = "ploop"
  /\ idx <= Len(image_dict)
  /\ \E sel \in Selections(image_dict[idx], quality_pref) :
       IF sel = <<>>
         THEN /\ idx' = idx + 1
              /\ UNCHANGED <<dpc, urls_to_download>>
         ELSE /\ urls_to_download' = sel
              /\ dpc' = "pfetch"
              /\ UNCHANGED idx
  /\ UNCHANGED <<avars, tvars, cvars, fvars,
                 image_dict, quality_pref, download_count, skipped_count, files,
                 cur_log, attempted, failed, run, files_run1>>

\* one pass of the inner loop of patched_download_images: try, except: pass,
\* then progress_hook()
PatchedFetch ==
  /\ run_pc = "download"
  /\ dpc = "pfetch"
  /\ LET c == Head(urls_to_download)
     IN  \E o \in Outcomes :
           files' = IF o \in {"ok", "write_error"}
                      THEN WriteFile(files, FileName(c, quality_pref))
                      ELSE files
  /\ count' = count + 1
  /\ percent' = Percent(count + 1, total)
  /\ prev_percent' = percent
  /\ urls_to_download' = Tail(urls_to_download)
  /\ IF Tail(urls_to_download) = <<>>
       THEN idx' = idx + 1 /\ dpc' = "ploop"
       ELSE UNCHANGED <<idx, dpc>>
  /\ UNCHANGED <<mode, run_pc, session, total, go_enabled, bar_format, sigq, active,
                 runs, handled, tvars, cvars, fvars,
                 image_dict, quality_pref, download_count, skipped_count,
                 cur_log, attempted, failed, run, files_run1>>

\* patched_download_images returns; self.progress.emit(100)
EmitHundred ==
  /\ run_pc = "download"
  /\ dpc = "ploop"
  /\ idx > Len(image_dict)
  /\ percent' = 100
  /\ prev_percent' = percent
  /\ dpc' = "done"
  /\ run_pc' = "emit_finished"
  /\ UNCHANGED <<mode, session, total, count, go_enabled, bar_format, sigq, active,
                 runs, handled, tvars, cvars, fvars,
                 image_dict, quality_pref, idx, urls_to_download, download_count,
                 skipped_count, files, cur_log, attempted, failed, run, files_run1>>

\* self.finished.emit(), the last statement of run
EmitFinished ==
  /\ run_pc = "emit_finished"
  /\ sigq' = Append(sigq, "finished")
  /\ run_pc' = "ended"
  /\ active' = active - 1
  /\ UNCHANGED <<mode, session, total, count, percent, prev_percent, go_enabled,
                 bar_format, runs, handled, tvars, cvars, fvars, dvars>>

(***************************************************************************)
(* PinterestDownloaderWindow and its ThumbnailLoader.                      *)
(***************************************************************************)
\* the thumbnail_ready signal of loader ld for its path i
Thumb(ld) == [loader |-> ld.id, folder |-> ld.folder, idx |-> ld.i]

\* thumbnail_loader.stop(); thumbnail_loader.wait(): the queue of signals when
\* wait returns; a loader that had passed its test of _is_running emits once more
AfterWait(ld, q) ==
  IF ld.alive /\ ld.i < ld.n THEN {q, Append(q, Thumb(ld))} ELSE {q}

\* _start_thumbnail_loading for n image files of folder
StartThumbnailLoading(folder, n) ==
  /\ minimap' = <<>>                                       \* minimap.clear()
  /\ cleared_running' = (cleared_running \/ thumbnail_loader.alive)
  /\ thumbq' \in AfterWait(thumbnail_loader, thumbq)       \* stop(); wait()
  /\ thumbnail_loader' = [id |-> loaders + 1, folder |-> folder, n |-> n, i |-> 0,
                          is_running |-> TRUE, alive |-> TRUE]
  /\ loaders' = loaders + 1

\* _load_images() and _update_image_viewer() with current_folder = folder
LoadAndShow(folder) ==
  \/ \E n \in 0..MaxFiles :
       /\ image_files' = n
       /\ StartThumbnailLoading(folder, n)
  \/ \* the folder does not exist: image_files = [], return; the viewer finds
     \* no image files and clears the minimap
     /\ image_files' = 0
     /\ minimap' = <<>>
     /\ cleared_running' = (cleared_running \/ thumbnail_loader.alive)
     /\ UNCHANGED <<thumbq, thumbnail_loader, loaders>>

\* the window after __init__: _populate_tree, _load_images, _update_image_viewer
InitWindow ==
  /\ go_enabled = TRUE /\ bar_format = "" /\ sigq = <<>>
  /\ active = 0 /\ runs = 0 /\ handled = 0
  /\ current_folder = NoFolder /\ minimap = <<>> /\ thumbq = <<>>
  /\ cleared_running = FALSE /\ closed = FALSE
  /\ \/ /\ image_files \in 0..MaxFiles
        /\ thumbnail_loader = [id |-> 1, folder |-> NoFolder, n |-> image_files,
                               i |-> 0, is_running |-> TRUE, alive |-> TRUE]
        /\ loaders = 1
     \/ /\ image_files = 0 /\ thumbnail_loader = NoLoader /\ loaders = 0

\* a mutant of Click: the Go button is left enabled
ClickLeavesEnabled ==
  /\ mode = "gui" /\ ~closed
  /\ go_enabled
  /\ runs < MaxRuns
  /\ bar_format' = ""
  /\ run_pc' = "setup" /\ active' = active + 1 /\ runs' = runs + 1
  /\ session' = "none" /\ total' = 0 /\ count' = 0
  /\ percent' = NoPercent /\ prev_percent' = NoPercent
  /\ image_dict' = <<>> /\ quality_pref' = "high-only"
  /\ dpc' = "idle" /\ idx' = 0 /\ urls_to_download' = <<>>
  /\ UNCHANGED <<mode, go_enabled, sigq, handled, tvars, cvars, fvars,
                 download_count, skipped_count, files, cur_log, attempted, failed,
                 run, files_run1>>

\* _on_go_clicked: the clicked signal of the enabled Go button
Click ==
  /\ mode = "gui" /\ ~closed
  /\ go_enabled
  /\ \E url \in {"", "board"} :
       IF url = ""
         THEN /\ bar_format' = "Please enter a URL."
              /\ UNCHANGED <<run_pc, session, total, count, percent, prev_percent,
                             go_enabled, active, runs, image_dict, quality_pref,
                             dpc, idx, urls_to_download>>
         ELSE /\ runs < MaxRuns
              /\ bar_format' = ""
              /\ go_enabled' = FALSE
              \* DownloadThread(url, image_dir, "high-only", 2.0).start()
              /\ run_pc' = "setup" /\ active' = active + 1 /\ runs' = runs + 1
              /\ session' = "none" /\ total' = 0 /\ count' = 0
              /\ percent' = NoPercent /\ prev_percent' = NoPercent
              /\ image_dict' = <<>> /\ quality_pref' = "high-only"
              /\ dpc' = "idle" /\ idx' = 0 /\ urls_to_download' = <<>>
  /\ UNCHANGED <<mode, sigq, handled, tvars, cvars, fvars,
                 download_count, skipped_count, files, cur_log, attempted, failed,
                 run, files_run1>>

\* _on_download_finished
HandleFinished ==
  /\ mode = "gui" /\ ~closed
  /\ sigq # <<>> /\ Head(sigq) = "finished"
  /\ sigq' = Tail(sigq)
  /\ handled' = handled + 1
  /\ go_enabled' = TRUE
  /\ LoadAndShow(current_folder)                           \* refresh_images()
  /\ bar_format' = "Done!"
  /\ UNCHANGED <<mode, run_pc, session, total, count, percent, prev_percent,
                 active, runs, current_folder, closed, cvars, fvars, dvars>>

\* _on_download_error
HandleError ==
  /\ mode = "gui" /\ ~closed
  /\ sigq # <<>> /\ Head(sigq) = "error"
  /\ sigq' = Tail(sigq)
  /\ handled' = handled + 1
  /\ go_enabled' = TRUE
  /\ bar_format' = "Error"
  /\ UNCHANGED <<mode, run_pc, session, total, count, percent, prev_percent,
                 active, runs, tvars, cvars, fvars, dvars>>

\* _on_tree_item_clicked on a board item
TreeClick ==
  /\ mode = "gui" /\ ~closed
  /\ loaders < MaxLoaders
  /\ \E f \in 1..MaxFolders :
       /\ current_folder' = f
       /\ LoadAndShow(f)
  /\ UNCHANGED <<closed, avars, cvars, fvars, dvars>>

\* ThumbnailLoader.run: one pass of its loop, or its end
LoaderStep ==
  /\ mode = "gui"
  /\ thumbnail_loader.alive
  /\ IF thumbnail_loader.is_running /\ thumbnail_loader.i < thumbnail_loader.n
       THEN /\ thumbnail_loader' = [thumbnail_loader EXCEPT !.i = @ + 1]
            /\ \/ thumbq' = Append(thumbq, Thumb(thumbnail_loader))
               \/ thumbq' = thumbq                         \* pixmap.isNull()
       ELSE /\ thumbnail_loader' = [thumbnail_loader EXCEPT !.alive = FALSE]
            /\ thumbq' = thumbq
  /\ UNCHANGED <<current_folder, image_files, loaders, minimap, cleared_running,
                 closed, avars, cvars, fvars, dvars>>

\* _add_minimap_item, the slot of a queued thumbnail_ready signal
AddMinimapItem ==
  /\ mode = "gui" /\ ~closed
  /\ thumbq # <<>>
  /\ minimap' = Append(minimap, Head(thumbq))
  /\ thumbq' = Tail(thumbq)
  /\ UNCHANGED <<current_folder, image_files, thumbnail_loader, loaders,
                 cleared_running, closed, avars, cvars, fvars, dvars>>

\* closeEvent
CloseEvent ==
  /\ mode = "gui" /\ ~closed
  /\ closed' = TRUE
  /\ IF thumbnail_loader # NoLoader
       THEN /\ thumbq' \in AfterWait(thumbnail_loader, thumbq)
            /\ thumbnail_loader' = [thumbnail_loader EXCEPT !.is_running = FALSE,
                                                            !.alive = FALSE]
       ELSE UNCHANGED <<thumbq, thumbnail_loader>>
  /\ UNCHANGED <<current_folder, image_files, loaders, minimap, cleared_running,
                 avars, cvars, fvars, dvars>>

(***************************************************************************)
(* The program of src/main.py: CLI mode with an argument, the window       *)
(* without one.                                                            *)
(***************************************************************************)
InitApp ==
  /\ IdleCollector /\ IdleFn
  /\ image_dict = <<>> /\ dpc = "idle" /\ idx = 0
  /\ urls_to_download = <<>> /\ download_count = 0 /\ skipped_count = 0
  /\ files = {} /\ cur_log = <<>> /\ attempted = 0 /\ failed = 0
  /\ run = 0 /\ files_run1 = {}
  /\ session = "none" /\ total = 0 /\ count = 0
  /\ percent = NoPercent /\ prev_percent = NoPercent
  /\ mode \in {"cli", "gui"}
  /\ IF mode = "cli"
       THEN /\ run_pc = "setup" /\ quality_pref \in Policies   \* args.quality
            /\ IdleWindow
       ELSE /\ run_pc = "idle" /\ quality_pref = "none"
            /\ InitWindow

NextApp ==
  \/ SetupDriver \/ GetPage \/ Collect \/ Quit
  \/ CallDownload \/ Select \/ Fetch \/ Summary \/ MainReturns
  \/ Click \/ ComputeTotal \/ PatchedSelect \/ PatchedFetch
  \/ EmitHundred \/ EmitFinished \/ HandleFinished \/ HandleError

SpecApp == InitApp /\ [][NextApp]_vars

(***************************************************************************)
(* The progress report of DownloadThread.run, for the mapping              *)
(* scroll_and_collect returned and the quality the thread was made with.   *)
(***************************************************************************)
\* mappings of up to MaxProgressIds identifiers with the same record
ProgressMappings ==
  {[i \in 1..n |-> q] : n \in 0..MaxProgressIds,
                        q \in [high : SUBSET DlUrls, low : SUBSET DlUrls]}

\* DownloadThread.run after driver.quit()
InitProgress ==
  /\ IdleCollector /\ IdleFn
  /\ image_dict \in ProgressMappings /\ quality_pref \in Policies
  /\ dpc = "idle" /\ idx = 0
  /\ urls_to_download = <<>> /\ download_count = 0 /\ skipped_count = 0
  /\ files = {} /\ cur_log = <<>> /\ attempted = 0 /\ failed = 0
  /\ run = 0 /\ files_run1 = {}
  /\ mode = "gui" /\ run_pc = "total" /\ session = "closed"
  /\ total = 0 /\ count = 0 /\ percent = NoPercent /\ prev_percent = NoPercent
  /\ go_enabled = FALSE /\ bar_format = "" /\ sigq = <<>>
  /\ active = 1 /\ runs = 1 /\ handled = 0
  /\ current_folder = NoFolder /\ image_files = 0
  /\ thumbnail_loader = NoLoader /\ loaders = 0 /\ minimap = <<>>
  /\ thumbq = <<>> /\ cleared_running = FALSE /\ closed = FALSE

NextProgress ==
  ComputeTotal \/ PatchedSelect \/ PatchedFetch \/ EmitHundred \/ EmitFinished

SpecProgress == InitProgress /\ [][NextProgress]_vars

(***************************************************************************)
(* The window and its thumbnail loader: folder selections, the refresh     *)
(* after a download run, the loader thread, the close of the window.       *)
(***************************************************************************)
\* the window after __init__, or with the finished signal of a first run over
\* an empty mapping in its queue
InitThumbs ==
  /\ IdleCollector /\ IdleFn
  /\ image_dict = <<>> /\ idx = 0
  /\ urls_to_download = <<>> /\ download_count = 0 /\ skipped_count = 0
  /\ files = {} /\ cur_log = <<>> /\ attempted = 0 /\ failed = 0
  /\ run = 0 /\ files_run1 = {}
  /\ mode = "gui" /\ total = 0 /\ count = 0 /\ prev_percent = NoPercent
  /\ bar_format = "" /\ handled = 0 /\ active = 0
  /\ current_folder = NoFolder /\ minimap = <<>> /\ thumbq = <<>>
  /\ cleared_running = FALSE /\ closed = FALSE
  /\ \/ /\ image_files \in 0..MaxFiles
        /\ thumbnail_loader = [id |-> 1, folder |-> NoFolder, n |-> image_files,
                               i |-> 0, is_running |-> TRUE, alive |-> TRUE]
        /\ loaders = 1
     \/ /\ image_files = 0 /\ thumbnail_loader = NoLoader /\ loaders = 0
  /\ \/ /\ run_pc = "idle" /\ session = "none" /\ percent = NoPercent
        /\ quality_pref = "none" /\ dpc = "idle"
        /\ go_enabled = TRUE /\ sigq = <<>> /\ runs = 0
     \/ /\ run_pc = "ended" /\ session = "closed" /\ percent = 100
        /\ quality_pref = "high-only" /\ dpc = "done"
        /\ go_enabled = FALSE /\ sigq = <<"finished">> /\ runs = 1

NextThumbs ==
  TreeClick \/ LoaderStep \/ AddMinimapItem \/ HandleFinished \/ CloseEvent

SpecThumbs == InitThumbs /\ [][NextThumbs]_vars

(***************************************************************************)
(* C12                                                                     *)
(***************************************************************************)
\* C12: in the GUI at most one DownloadThread run is active; the Go button is
\* disabled while a run is active or its finished / error notification waits
\* to be handled; every run that is over has delivered exactly one
\* notification (the notifications handled or queued are as many as the runs
\* that are over, never two in the queue); and with no run active and no
\* notification waiting the button is enabled
C12_OneRunAtATime ==
  mode = "gui" =>
    /\ active \in {0, 1}
    /\ (active = 1) = (run_pc \in {"setup", "get", "collect", "quit", "total",
                                   "download", "emit_finished"})
    /\ (active = 1 \/ sigq # <<>>) => ~go_enabled
    /\ Len(sigq) <= 1
    /\ runs = handled + Len(sigq) + active
    /\ (active = 0 /\ sigq = <<>>) => go_enabled

\* a first run finished with a file written and was handled; the second run
\* failed and its error notification waits, the button still disabled
C12_Witness ==
  /\ mode = "gui" /\ runs = 2 /\ active = 0 /\ handled = 1
  /\ sigq = <<"error">> /\ ~go_enabled /\ files # {}

(***************************************************************************)
(* C14                                                                     *)
(***************************************************************************)
\* C14: in CLI and in GUI mode, while the session of a run is not closed the
\* run is not in its download and no request of it has been issued; a run whose
\* download has started has closed its session; and an open session belongs to
\* a run that is at the page load, the collector or the quit, or that failed
C14_SessionClosedBeforeDownload ==
  /\ (session # "closed") =>
        (dpc = "idle" /\ attempted = 0 /\ urls_to_download = <<>>)
  /\ (run_pc \in {"call", "downloading", "total", "download", "emit_finished"})
        => session = "closed"
  /\ (session = "open")
        => run_pc \in {"get", "collect", "quit", "crashed", "ended"}
  /\ (mode = "cli" /\ run_pc = "ended") => session = "closed"
  /\ ("finished" \in {sigq[k] : k \in 1..Len(sigq)}) => session = "closed"

\* a CLI run under 'all' has issued its first request and is at its second,
\* the session closed
C14_Witness ==
  /\ mode = "cli" /\ run_pc = "downloading" /\ dpc = "fetch"
  /\ attempted = 1 /\ session = "closed"

(***************************************************************************)
(* C15                                                                     *)
(***************************************************************************)
\* C15: the progress values of a GUI run are non-decreasing and lie in 0..100,
\* the count of processed URLs never exceeds the total, each value emitted by
\* the progress hook equals floor(100 * count / total), and when the run emits
\* finished the last value emitted is 100
C15_ProgressValues ==
  /\ prev_percent <= percent
  /\ percent \in {NoPercent} \cup (0..100)
  /\ count <= total
  /\ (run_pc = "download" /\ count > 0) => percent = (100 * count) \div total
  /\ (run_pc \in {"emit_finished"} \/ sigq = <<"finished">>) => percent = 100

(***************************************************************************)
(* C13                                                                     *)
(***************************************************************************)
\* C13: the minimap is never cleared while the loader started before is still
\* running, and every item of the minimap comes from a loader started for the
\* current folder
C13_LoaderStoppedBeforeReuse ==
  /\ ~cleared_running
  /\ \A k \in 1..Len(minimap) :
       /\ minimap[k].folder = current_folder
       /\ minimap[k].loader = thumbnail_loader.id

====
